---- MODULE Spec2Model ----
(***************************************************************************)
(* A model of the expiringmap crate (src/src/lib.rs): ExpiringMap, a       *)
(* HashMap whose entries carry an insertion Instant and a ttl Duration,    *)
(* with lazy expiry on access and an amortised vacuum.                     *)
(*                                                                         *)
(* Time is the monotonic clock in ticks (variable now); a Duration is a    *)
(* natural number of ticks.  One call reads the clock as one instant: the  *)
(* clock only advances between calls (action Tick).  Option<T> is a        *)
(* sequence of length at most one.  The HashMap is a function whose        *)
(* DOMAIN is the set of keys physically stored; its capacity is not        *)
(* modelled (reserve, capacity and the shrinking half of shrink_to_fit /   *)
(* shrink_to change nothing else).                                         *)
(***************************************************************************)
EXTENDS Integers, Sequences, FiniteSets, TLC

\* ------------------------------------------------------------ bounds
\* keys are 1..NumKeys
NumKeys == 14
\* the clock runs from 0 to MaxTime
MaxTime == 1
Keys == 1..NumKeys
\* keys the caller inserts, removes and mutates with every ttl and value
ProbeKeys == {1}
\* the other keys, which the caller inserts in ascending order
FillKeys == Keys \ ProbeKeys
TTLs == {0, 1, 2}
Values == {1, 2}
\* what the caller gives to every key outside ProbeKeys: the least value and
\* the least ttl that is not zero
FillValue == CHOOSE v \in Values : \A w \in Values : v <= w
FillTTL == CHOOSE d \in TTLs \ {0} : \A e \in TTLs \ {0} : d <= e

\* ------------------------------------------------------------ Option<T>
None == <<>>
Some(x) == <<x>>
is_some(o) == o # None
unwrap(o) == o[1]
\* Option::filter, Option::map, Option::is_some_and
opt_filter(o, p(_)) == IF is_some(o) /\ p(unwrap(o)) THEN o ELSE None
opt_map(o, f(_)) == IF is_some(o) THEN Some(f(unwrap(o))) ELSE None
is_some_and(o, p(_)) == is_some(o) /\ p(unwrap(o))

\* ------------------------------------------------------------ ExpiryValue
\* Instant::elapsed: the monotonic clock never runs behind a stored Instant
elapsed(inserted, t) == IF t >= inserted THEN t - inserted ELSE 0

\* faulty variant of saturating_sub: the difference is not clamped at zero
unclamped_sub(a, b) == a - b

\* Duration::saturating_sub
saturating_sub(a, b) == IF a >= b THEN a - b ELSE 0

remaining(e, t) == saturating_sub(e.ttl, elapsed(e.inserted, t))

\* faulty variant of expired: an entry expires only after its ttl, not at it
expired_after(e, t) == elapsed(e.inserted, t) > e.ttl

expired(e, t) == remaining(e, t) = 0

not_expired(e, t) == ~expired(e, t)

\* ------------------------------------------------------------ ExpiringMap
MINIMUM_VACUUM_SIZE == 8

\* HashMap primitives on the function m
hm_len(m) == Cardinality(DOMAIN m)
hm_get(m, k) == IF k \in DOMAIN m THEN Some(m[k]) ELSE None
hm_insert(m, k, e) == [x \in DOMAIN m \cup {k} |-> IF x = k THEN e ELSE m[x]]
hm_remove(m, k) == [x \in DOMAIN m \ {k} |-> m[x]]
hm_retain(m, keep(_)) == [x \in {y \in DOMAIN m : keep(m[y])} |-> m[x]]

\* with_capacity: an empty map, last_size at the floor
with_capacity == [last_size |-> MINIMUM_VACUUM_SIZE, inner |-> << >>]

\* faulty variant of vacuum: an entry is swept one tick before its ttl is over
vacuum_early(self, t) ==
    LET kept == hm_retain(self.inner, LAMBDA e : elapsed(e.inserted, t) + 1 < e.ttl)
    IN  [last_size |-> IF hm_len(kept) > MINIMUM_VACUUM_SIZE
                       THEN hm_len(kept) ELSE MINIMUM_VACUUM_SIZE,
         inner |-> kept]

\* faulty variant of vacuum: an entry whose ttl is just over is kept
vacuum_late(self, t) ==
    LET kept == hm_retain(self.inner, LAMBDA e : elapsed(e.inserted, t) <= e.ttl)
    IN  [last_size |-> IF hm_len(kept) > MINIMUM_VACUUM_SIZE
                       THEN hm_len(kept) ELSE MINIMUM_VACUUM_SIZE,
         inner |-> kept]

\* faulty variant of vacuum: last_size is set to the length, without the floor
vacuum_no_floor(self, t) ==
    LET kept == hm_retain(self.inner, LAMBDA e : elapsed(e.inserted, t) < e.ttl)
    IN  [last_size |-> hm_len(kept), inner |-> kept]

\* vacuum: retain the entries with now - inserted < ttl, then set last_size
vacuum(self, t) ==
    LET kept == hm_retain(self.inner, LAMBDA e : elapsed(e.inserted, t) < e.ttl)
    IN  [last_size |-> IF hm_len(kept) > MINIMUM_VACUUM_SIZE
                       THEN hm_len(kept) ELSE MINIMUM_VACUUM_SIZE,
         inner |-> kept]

\* faulty variant of needs_vacuum: the comparison is not strict
needs_vacuum_inclusive(self) == (self.last_size * 3) \div 2 <= hm_len(self.inner)

\* the condition of vacuum_if_needed
needs_vacuum(self) == (self.last_size * 3) \div 2 < hm_len(self.inner)

vacuum_if_needed(self, t) == IF needs_vacuum(self) THEN vacuum(self, t) ELSE self

\* get_meta: the entry, if stored and not expired
get_meta(self, k, t) ==
    opt_filter(hm_get(self.inner, k), LAMBDA x : not_expired(x, t))

\* get: the value of get_meta's entry
get(self, k, t) == opt_map(get_meta(self, k, t), LAMBDA v : v.value)

\* faulty variant of get_key_value: the expiry filter is left out
get_key_value_unfiltered(self, k, t) ==
    opt_map(opt_map(hm_get(self.inner, k), LAMBDA v : <<k, v>>),
            LAMBDA kv : <<kv[1], kv[2].value>>)

\* get_key_value: the stored key and the value, if not expired
get_key_value(self, k, t) ==
    opt_map(opt_filter(opt_map(hm_get(self.inner, k), LAMBDA v : <<k, v>>),
                       LAMBDA kv : not_expired(kv[2], t)),
            LAMBDA kv : <<kv[1], kv[2].value>>)

\* faulty variant of get_mut: an expired entry is deleted when it is looked up
get_mut_evicting(self, k, t) ==
    LET o == hm_get(self.inner, k)
        live == is_some_and(o, LAMBDA x : not_expired(x, t))
    IN  [self |-> [last_size |-> self.last_size,
                   inner |-> IF is_some(o) /\ ~live
                             THEN hm_remove(self.inner, k) ELSE self.inner],
         ret |-> IF live THEN Some(unwrap(o).value) ELSE None]

\* faulty variant of get_mut: handing out the reference restamps the entry
get_mut_refreshing(self, k, t) ==
    LET o == hm_get(self.inner, k)
        live == is_some_and(o, LAMBDA x : not_expired(x, t))
    IN  [self |-> [last_size |-> self.last_size,
                   inner |-> IF live THEN [self.inner EXCEPT ![k].inserted = t]
                             ELSE self.inner],
         ret |-> IF live THEN Some(unwrap(o).value) ELSE None]

\* get_mut (&mut self): the map after the call, and the value the returned
\* reference points to, if not expired
get_mut(self, k, t) ==
    [self |-> self,
     ret |-> opt_map(opt_filter(hm_get(self.inner, k), LAMBDA x : not_expired(x, t)),
                     LAMBDA v : v.value)]

\* contains_key: get_meta, checked for expiry once more
contains_key(self, k, t) ==
    is_some_and(get_meta(self, k, t), LAMBDA x : not_expired(x, t))

\* faulty variant of insert: the vacuum_if_needed at its start is left out
insert_unchecked(self, k, v, ttl, t) ==
    LET entry == [inserted |-> t, ttl |-> ttl, value |-> v]
    IN  [self |-> [last_size |-> self.last_size,
                   inner |-> hm_insert(self.inner, k, entry)],
         ret |-> opt_filter(hm_get(self.inner, k), LAMBDA x : not_expired(x, t))]

\* faulty variant of insert: the old entry is returned even when it has expired
insert_unfiltered(self, k, v, ttl, t) ==
    LET s1 == vacuum_if_needed(self, t)
        entry == [inserted |-> t, ttl |-> ttl, value |-> v]
    IN  [self |-> [last_size |-> s1.last_size,
                   inner |-> hm_insert(s1.inner, k, entry)],
         ret |-> hm_get(s1.inner, k)]

\* insert: vacuum_if_needed, then overwrite; the old entry if not expired
insert(self, k, v, ttl, t) ==
    LET s1 == vacuum_if_needed(self, t)
        entry == [inserted |-> t, ttl |-> ttl, value |-> v]
    IN  [self |-> [last_size |-> s1.last_size,
                   inner |-> hm_insert(s1.inner, k, entry)],
         ret |-> opt_filter(hm_get(s1.inner, k), LAMBDA x : not_expired(x, t))]

\* faulty variant of remove: an expired entry is reported absent and left in place
remove_live_only(self, k, t) ==
    LET live == is_some_and(hm_get(self.inner, k), LAMBDA x : not_expired(x, t))
    IN  [self |-> [last_size |-> self.last_size,
                   inner |-> IF live THEN hm_remove(self.inner, k) ELSE self.inner],
         ret |-> live]

\* remove: delete; true if the deleted entry was not expired
remove(self, k, t) ==
    [self |-> [last_size |-> self.last_size, inner |-> hm_remove(self.inner, k)],
     ret |-> is_some_and(hm_get(self.inner, k), LAMBDA x : not_expired(x, t))]

\* remove_entry: delete; the key and value if the deleted entry was not expired
remove_entry(self, k, t) ==
    [self |-> [last_size |-> self.last_size, inner |-> hm_remove(self.inner, k)],
     ret |-> opt_map(opt_filter(opt_map(hm_get(self.inner, k), LAMBDA v : <<k, v>>),
                                LAMBDA kv : not_expired(kv[2], t)),
                     LAMBDA kv : <<kv[1], kv[2].value>>)]

\* faulty variant of shrink_to_fit: the capacity shrinks, no vacuum runs
shrink_only(self, t) == self

\* shrink_to_fit and shrink_to: vacuum, then the HashMap's capacity shrinks
shrink_to_fit(self, t) == vacuum(self, t)
shrink_to(self, min_capacity, t) == vacuum(self, t)

len(self) == hm_len(self.inner)
is_empty(self) == hm_len(self.inner) = 0

\* ------------------------------------------------------------ ExpiringSet
\* the value type of the map an ExpiringSet wraps: ()
Unit == << >>

\* ExpiringSet::new(): with_capacity(0), a new map inside
set_with_capacity == with_capacity

\* faulty variant of the set's insert: true whenever the key was stored
set_insert_unfiltered(self, k, ttl, t) ==
    LET s1 == vacuum_if_needed(self, t)
        entry == [inserted |-> t, ttl |-> ttl, value |-> Unit]
    IN  [self |-> [last_size |-> s1.last_size,
                   inner |-> hm_insert(s1.inner, k, entry)],
         ret |-> is_some(hm_get(s1.inner, k))]

\* the set's insert: vacuum_if_needed, then overwrite; true if the old
\* entry was not expired
set_insert(self, k, ttl, t) ==
    LET s1 == vacuum_if_needed(self, t)
        entry == [inserted |-> t, ttl |-> ttl, value |-> Unit]
    IN  [self |-> [last_size |-> s1.last_size,
                   inner |-> hm_insert(s1.inner, k, entry)],
         ret |-> is_some(opt_filter(hm_get(s1.inner, k),
                                    LAMBDA x : not_expired(x, t)))]

\* contains: the map's contains_key
set_contains(self, k, t) == contains_key(self, k, t)

\* take: the map's remove_entry, mapped to the key
set_take(self, k, t) ==
    LET r == remove_entry(self, k, t)
    IN  [self |-> r.self, ret |-> opt_map(r.ret, LAMBDA kv : kv[1])]

\* the set's shrink_to_fit and shrink_to: the map's
set_shrink_to_fit(self, t) == shrink_to_fit(self, t)
set_shrink_to(self, min_capacity, t) == shrink_to(self, min_capacity, t)

\* ------------------------------------------------------------ state
VARIABLES
    last_size,  \* ExpiringMap.last_size
    inner,      \* ExpiringMap.inner: key -> [inserted, ttl, value]
    now,        \* the monotonic clock
    ret,        \* the last call: its name, key, arguments, result, and
                \* whether it ran a vacuum
    written,    \* history: for each tracked key, the time, ttl and value
                \* of the last insert of it (the value as get_mut left
                \* it), until a remove of that key
    set,        \* ExpiringSet.0: the ExpiringMap<K, ()> a set wraps
    sret,       \* the result of the last call on the set
    inserts,    \* history: the insert calls since construction or since
                \* the last insert that ran a vacuum
    phase       \* history: what has happened since that point

setvars == <<set, sret>>
cntvars == <<inserts, phase>>
vars == <<last_size, inner, now, ret, written, set, sret, inserts, phase>>

Self == [last_size |-> last_size, inner |-> inner]

\* the keys whose history is kept
Tracked == ProbeKeys

StoredFill == DOMAIN inner \cap FillKeys
Max(S) == CHOOSE x \in S : \A y \in S : y <= x
Min(S) == CHOOSE x \in S : \A y \in S : x <= y
\* the caller's next new key: one past the largest stored one, and only
\* while every key of FillKeys it has stored is still alive
NextFill == IF StoredFill = {} THEN {Min(FillKeys)}
            ELSE IF \A f \in StoredFill : now - inner[f].inserted < inner[f].ttl
                 THEN {Max(StoredFill) + 1} \cap FillKeys
                 ELSE {}
\* the keys the caller removes
CallKeys == ProbeKeys \cup (IF StoredFill = {} THEN {} ELSE {Max(StoredFill)})
\* the (key, value, ttl) the caller inserts
InsertArgs == (ProbeKeys \X Values \X TTLs)
              \cup (NextFill \X {FillValue} \X {FillTTL})

Call(op, k, arg, val, vac) ==
    [op |-> op, key |-> k, arg |-> arg, val |-> val, vac |-> vac]

Forget(k) == [x \in DOMAIN written \ {k} |-> written[x]]

Init ==
    /\ last_size = with_capacity.last_size
    /\ inner = with_capacity.inner
    /\ now = 0
    /\ ret = Call("new", 0, None, None, FALSE)
    /\ written = << >>
    /\ set = set_with_capacity
    /\ sret = None
    /\ inserts = 0
    /\ phase = "fresh"

\* the clock advances between two calls
Tick ==
    /\ now < MaxTime
    /\ now' = now + 1
    /\ ret' = Call("tick", 0, None, None, FALSE)
    /\ UNCHANGED <<last_size, inner, written, setvars, cntvars>>

Vacuum ==
    LET s == vacuum(Self, now)
    IN  /\ last_size' = s.last_size
        /\ inner' = s.inner
        /\ ret' = Call("vacuum", 0, None, None, TRUE)
        /\ UNCHANGED <<now, written, setvars, cntvars>>

VacuumIfNeeded ==
    LET s == vacuum_if_needed(Self, now)
    IN  /\ last_size' = s.last_size
        /\ inner' = s.inner
        /\ ret' = Call("vacuum_if_needed", 0, None, None, needs_vacuum(Self))
        /\ UNCHANGED <<now, written, setvars, cntvars>>

ShrinkToFit ==
    LET s == shrink_to_fit(Self, now)
    IN  /\ last_size' = s.last_size
        /\ inner' = s.inner
        /\ ret' = Call("shrink_to_fit", 0, None, None, TRUE)
        /\ UNCHANGED <<now, written, setvars, cntvars>>

ShrinkTo ==
    \E n \in {0} :
        LET s == shrink_to(Self, n, now)
        IN  /\ last_size' = s.last_size
            /\ inner' = s.inner
            /\ ret' = Call("shrink_to", 0, Some(n), None, TRUE)
            /\ UNCHANGED <<now, written, setvars, cntvars>>

GetMeta ==
    \E k \in ProbeKeys :
        /\ ret' = Call("get_meta", k, None, get_meta(Self, k, now), FALSE)
        /\ UNCHANGED <<last_size, inner, now, written, setvars, cntvars>>

Get ==
    \E k \in ProbeKeys :
        /\ ret' = Call("get", k, None, get(Self, k, now), FALSE)
        /\ UNCHANGED <<last_size, inner, now, written, setvars, cntvars>>

GetKeyValue ==
    \E k \in ProbeKeys :
        /\ ret' = Call("get_key_value", k, None, get_key_value(Self, k, now), FALSE)
        /\ UNCHANGED <<last_size, inner, now, written, setvars, cntvars>>

ContainsKey ==
    \E k \in ProbeKeys :
        /\ ret' = Call("contains_key", k, None, contains_key(Self, k, now), FALSE)
        /\ UNCHANGED <<last_size, inner, now, written, setvars, cntvars>>

\* get_mut, and the caller's write of w through the returned reference
GetMut ==
    \E k \in ProbeKeys, w \in Values :
        LET r == get_mut(Self, k, now)
        IN  /\ ret' = Call("get_mut", k, IF is_some(r.ret) THEN Some(w) ELSE None,
                           r.ret, FALSE)
            /\ last_size' = r.self.last_size
            /\ inner' = IF is_some(r.ret)
                        THEN [r.self.inner EXCEPT ![k].value = w] ELSE r.self.inner
            /\ written' = IF is_some(r.ret) /\ k \in DOMAIN written
                           THEN [written EXCEPT ![k].value = w] ELSE written
            /\ UNCHANGED <<now, setvars, cntvars>>

Insert ==
    \E a \in InsertArgs :
        LET k == a[1]
            r == insert(Self, k, a[2], a[3], now)
        IN  /\ last_size' = r.self.last_size
            /\ inner' = r.self.inner
            /\ ret' = Call("insert", k, Some(<<a[2], a[3]>>), r.ret, needs_vacuum(Self))
            /\ written' = IF k \in Tracked
                           THEN [x \in DOMAIN written \cup {k} |->
                                   IF x = k THEN [at |-> now, ttl |-> a[3], value |-> a[2]]
                                   ELSE written[x]]
                           ELSE written
            /\ UNCHANGED <<now, setvars, cntvars>>

Remove ==
    \E k \in CallKeys :
        LET r == remove(Self, k, now)
        IN  /\ last_size' = r.self.last_size
            /\ inner' = r.self.inner
            /\ ret' = Call("remove", k, None, r.ret, FALSE)
            /\ written' = Forget(k)
            /\ UNCHANGED <<now, setvars, cntvars>>

RemoveEntry ==
    \E k \in CallKeys :
        LET r == remove_entry(Self, k, now)
        IN  /\ last_size' = r.self.last_size
            /\ inner' = r.self.inner
            /\ ret' = Call("remove_entry", k, None, r.ret, FALSE)
            /\ written' = Forget(k)
            /\ UNCHANGED <<now, setvars, cntvars>>

Next ==
    \/ Tick
    \/ Vacuum
    \/ VacuumIfNeeded
    \/ ShrinkToFit
    \/ ShrinkTo
    \/ GetMeta
    \/ Get
    \/ GetKeyValue
    \/ ContainsKey
    \/ GetMut
    \/ Remove
    \/ RemoveEntry
    \/ Insert

Spec == Init /\ [][Next]_vars

\* ------------------------------------------------------------ the set
\* An ExpiringSet in `set`, and beside it an ExpiringMap<K, ()> in
\* last_size and inner that receives the corresponding map call at each step.
SetInsertArgs == (ProbeKeys \X TTLs) \cup (NextFill \X {FillTTL})

SetInsert ==
    \E a \in SetInsertArgs :
        LET k == a[1]
            s == set_insert(set, k, a[2], now)
            r == insert(Self, k, Unit, a[2], now)
        IN  /\ set' = s.self
            /\ sret' = s.ret
            /\ last_size' = r.self.last_size
            /\ inner' = r.self.inner
            /\ ret' = Call("insert", k, Some(<<Unit, a[2]>>), r.ret, needs_vacuum(Self))
            /\ written' = IF k \in Tracked
                           THEN [x \in DOMAIN written \cup {k} |->
                                   IF x = k THEN [at |-> now, ttl |-> a[2], value |-> Unit]
                                   ELSE written[x]]
                           ELSE written
            /\ UNCHANGED <<now, cntvars>>

SetContains ==
    \E k \in ProbeKeys :
        /\ sret' = set_contains(set, k, now)
        /\ ret' = Call("contains_key", k, None, contains_key(Self, k, now), FALSE)
        /\ UNCHANGED <<set, last_size, inner, now, written, cntvars>>

SetTake ==
    \E k \in CallKeys :
        LET s == set_take(set, k, now)
            r == remove_entry(Self, k, now)
        IN  /\ set' = s.self
            /\ sret' = s.ret
            /\ last_size' = r.self.last_size
            /\ inner' = r.self.inner
            /\ ret' = Call("remove_entry", k, None, r.ret, FALSE)
            /\ written' = Forget(k)
            /\ UNCHANGED <<now, cntvars>>

SetShrinkToFit ==
    LET s == shrink_to_fit(Self, now)
    IN  /\ set' = set_shrink_to_fit(set, now)
        /\ sret' = None
        /\ last_size' = s.last_size
        /\ inner' = s.inner
        /\ ret' = Call("shrink_to_fit", 0, None, None, TRUE)
        /\ UNCHANGED <<now, written, cntvars>>

SetShrinkTo ==
    \E n \in {0} :
        LET s == shrink_to(Self, n, now)
        IN  /\ set' = set_shrink_to(set, n, now)
            /\ sret' = None
            /\ last_size' = s.last_size
            /\ inner' = s.inner
            /\ ret' = Call("shrink_to", 0, Some(n), None, TRUE)
            /\ UNCHANGED <<now, written, cntvars>>

\* vacuum, reached through the set's DerefMut
SetVacuum ==
    LET s == vacuum(Self, now)
    IN  /\ set' = vacuum(set, now)
        /\ sret' = None
        /\ last_size' = s.last_size
        /\ inner' = s.inner
        /\ ret' = Call("vacuum", 0, None, None, TRUE)
        /\ UNCHANGED <<now, written, cntvars>>

SetNext ==
    \/ Tick
    \/ SetVacuum
    \/ SetShrinkToFit
    \/ SetShrinkTo
    \/ SetContains
    \/ SetTake
    \/ SetInsert

SetSpec == Init /\ [][SetNext]_vars

\* ------------------------------------------------------------ counted inserts
\* The map under a caller that inserts a key not in the store or one that
\* is, vacuums and lets time pass, with the insert calls counted.
\* phase: "fresh" until an insert runs a vacuum; "swept" after an insert
\* ran one and no explicit vacuum has run since; "mixed" after an explicit
\* vacuum followed it.
InsertsCap == (MINIMUM_VACUUM_SIZE * 3) \div 2 + 1

FreeKeys == Keys \ DOMAIN inner
CountedKeys == (IF FreeKeys = {} THEN {} ELSE {Min(FreeKeys)})
               \cup (IF DOMAIN inner = {} THEN {} ELSE {Min(DOMAIN inner)})

CountedInsert ==
    \E k \in CountedKeys :
        LET r == insert(Self, k, FillValue, FillTTL, now)
            vac == needs_vacuum(Self)
        IN  /\ last_size' = r.self.last_size
            /\ inner' = r.self.inner
            /\ ret' = Call("insert", k, Some(<<FillValue, FillTTL>>), r.ret, vac)
            /\ inserts' = IF vac THEN 0
                          ELSE IF inserts < InsertsCap THEN inserts + 1 ELSE inserts
            /\ phase' = IF vac THEN "swept" ELSE phase
            /\ UNCHANGED <<now, written, setvars>>

CountedVacuum ==
    LET s == vacuum(Self, now)
    IN  /\ last_size' = s.last_size
        /\ inner' = s.inner
        /\ ret' = Call("vacuum", 0, None, None, TRUE)
        /\ phase' = IF phase = "swept" THEN "mixed" ELSE phase
        /\ UNCHANGED <<now, written, setvars, inserts>>

CountedNext ==
    \/ Tick
    \/ CountedVacuum
    \/ CountedInsert

CountedSpec == Init /\ [][CountedNext]_vars

\* ------------------------------------------------------------ claims
\* the map after the step, in an action formula
SelfNext == [last_size |-> last_size', inner |-> inner']

\* the store m holds an entry for k whose time since insertion at clock t
\* is strictly less than its ttl
Live(m, k, t) == k \in DOMAIN m /\ t - m[k].inserted < m[k].ttl
LiveKeys(m, t) == {k \in DOMAIN m : Live(m, k, t)}

ReadOps == {"get_meta", "get", "get_key_value", "get_mut", "contains_key"}

\* what each read returns for a key that is not in the store at all
Absent(op) == IF op = "contains_key" THEN FALSE ELSE None

\* C1: in every reachable state and for every key k, get_meta, get,
\* get_key_value, get_mut and contains_key report k as present exactly when
\* the store holds an entry for k with elapsed < ttl; an expired entry is
\* reported like an absent key; a live entry yields the entry, and the value
\* last inserted or written through get_mut; and the result of the last
\* read call is the one this rule gives.
C1_ReadsAgree ==
    /\ \A k \in Keys :
        LET live == Live(inner, k, now)
            meta == get_meta(Self, k, now)
            val == get(Self, k, now)
            kv == get_key_value(Self, k, now)
            mut == get_mut(Self, k, now).ret
        IN  /\ is_some(meta) <=> live
            /\ is_some(val) <=> live
            /\ is_some(kv) <=> live
            /\ is_some(mut) <=> live
            /\ contains_key(Self, k, now) <=> live
            /\ live =>
                  /\ meta = Some(inner[k])
                  /\ val = Some(inner[k].value)
                  /\ kv = Some(<<k, inner[k].value>>)
                  /\ mut = Some(inner[k].value)
                  /\ k \in Tracked =>
                        /\ k \in DOMAIN written
                        /\ val = Some(written[k].value)
    /\ ret.op \in ReadOps =>
          IF Live(inner, ret.key, now)
          THEN /\ ret.op = "contains_key" => ret.val = TRUE
               /\ ret.op = "get_meta" => ret.val = Some(inner[ret.key])
               /\ ret.op = "get" => ret.val = Some(inner[ret.key].value)
               /\ ret.op = "get_key_value"
                     => ret.val = Some(<<ret.key, inner[ret.key].value>>)
               /\ ret.op = "get_mut" => is_some(ret.val)
               /\ ret.key \in Tracked /\ ret.op = "get"
                     => ret.val = Some(written[ret.key].value)
          ELSE ret.val = Absent(ret.op)

\* C1 witness: get_key_value was called on a key whose entry is in the
\* store and expired, and returned none
C1_Witness ==
    /\ ret.op = "get_key_value"
    /\ ret.key \in DOMAIN inner
    /\ ~Live(inner, ret.key, now)
    /\ ret.val = None

\* the key, value and ttl of the insert call recorded in r
InsKey(r) == r.key
InsValue(r) == unwrap(r.arg)[1]
InsTTL(r) == unwrap(r.arg)[2]

\* C2: a key inserted with ttl t > 0 at time T has contains_key true at every
\* time in [T, T+t) and false at every time from T+t on, whatever calls on
\* other keys, vacuums and shrinks came in between, until it is inserted
\* again (written[k] is the last insert of k; a remove of k ends it); a key
\* never inserted, or removed since, is not visible.
C2_VisibleUntilExpiry ==
    \A k \in Tracked :
        IF k \in DOMAIN written
        THEN written[k].ttl > 0 =>
               (contains_key(Self, k, now) <=> now < written[k].at + written[k].ttl)
        ELSE ~contains_key(Self, k, now)

\* C2 witness: contains_key was called on a key inserted with ttl > 0 whose
\* ttl is over, and returned false
C2_Witness ==
    /\ ret.op = "contains_key"
    /\ ret.val = FALSE
    /\ ret.key \in DOMAIN written
    /\ written[ret.key].ttl > 0
    /\ now >= written[ret.key].at + written[ret.key].ttl
    /\ ret.key \in DOMAIN inner

\* what C3 says of an insert step, but for the following get
C3_Overwrites ==
    ret'.op = "insert" =>
        LET k == InsKey(ret')
        IN  /\ k \in DOMAIN inner'
            /\ inner'[k] = [inserted |-> now, ttl |-> InsTTL(ret'),
                            value |-> InsValue(ret')]
            /\ ret'.val = IF Live(inner, k, now) THEN Some(inner[k]) ELSE None
            /\ \A x \in DOMAIN inner' \ {k} : x \in DOMAIN inner /\ inner'[x] = inner[x]

\* C3 as stated: insert overwrites the entry for k with a fresh one stamped
\* with the current time and the given ttl, returns the previous entry iff
\* it existed and had not expired, and a following get(k) returns the new
\* value.
C3_AsStated ==
    [][ /\ C3_Overwrites
        /\ ret'.op = "insert" =>
              get(SelfNext, InsKey(ret'), now') = Some(InsValue(ret')) ]_vars

\* C3 amended: as C3, but the following get(k) (at the same clock instant)
\* returns the new value when the new ttl is greater than zero, and none
\* when it is zero.
C3_InsertReplaces ==
    [][ /\ C3_Overwrites
        /\ ret'.op = "insert" =>
              get(SelfNext, InsKey(ret'), now')
                = IF InsTTL(ret') > 0 THEN Some(InsValue(ret')) ELSE None ]_vars

\* C3 witness: an insert that ran a vacuum returned the previous live entry
\* of its key, and get returns the new value
C3_Witness ==
    /\ ret.op = "insert"
    /\ ret.vac
    /\ is_some(ret.val)
    /\ get(Self, ret.key, now) = Some(InsValue(ret))
    /\ unwrap(ret.val).value # InsValue(ret)

\* C4: remove(k) leaves the store without k (and the rest as it was) and
\* returns true iff a live entry for k existed; remove_entry(k) does the
\* same and returns the key and value, or none; a second remove or
\* remove_entry of the same key right after the first reports false / none.
C4_Remove ==
    [][ /\ ret'.op \in {"remove", "remove_entry"} =>
              LET k == ret'.key
              IN  /\ k \notin DOMAIN inner'
                  /\ DOMAIN inner' = DOMAIN inner \ {k}
                  /\ \A x \in DOMAIN inner' : inner'[x] = inner[x]
                  /\ last_size' = last_size
                  /\ ret'.op = "remove" => ret'.val = Live(inner, k, now)
                  /\ ret'.op = "remove_entry" =>
                        ret'.val = IF Live(inner, k, now)
                                   THEN Some(<<k, inner[k].value>>) ELSE None
                  /\ ( ret.op \in {"remove", "remove_entry"} /\ ret.key = k ) =>
                        ret'.val = Absent(IF ret'.op = "remove"
                                          THEN "contains_key" ELSE "get")
      ]_vars

\* C4 witness: remove reported false for a key of FillKeys, which the
\* caller removes only while the store holds it: the entry was expired
C4_Witness ==
    /\ ret.op = "remove"
    /\ ret.key \in FillKeys
    /\ ret.val = FALSE
    /\ ret.key \notin DOMAIN inner

\* C5: after vacuum() the keys in the store are exactly the keys whose
\* entries were live at the call, each with its entry unchanged.
C5_Vacuum ==
    [][ ret'.op = "vacuum" =>
            /\ DOMAIN inner' = LiveKeys(inner, now)
            /\ \A k \in DOMAIN inner' : inner'[k] = inner[k] ]_vars

\* C5 witness: a vacuum has deleted the expired entry of a tracked key and
\* kept other entries
C5_Witness ==
    /\ ret.op = "vacuum"
    /\ DOMAIN inner # {}
    /\ \E k \in DOMAIN written : k \notin DOMAIN inner

Max2(a, b) == IF a >= b THEN a ELSE b
\* the store is longer than floor((last_size * 3) / 2)
PastThreshold == hm_len(inner) > (last_size * 3) \div 2
\* the step ran a full vacuum before anything else it did to key k
RanVacuum(k) ==
    /\ DOMAIN inner' \ {k} = LiveKeys(inner, now) \ {k}
    /\ \A x \in DOMAIN inner' \ {k} : inner'[x] = inner[x]
    /\ last_size' = Max2(MINIMUM_VACUUM_SIZE, Cardinality(LiveKeys(inner, now)))

VacuumOps == {"vacuum", "shrink_to_fit", "shrink_to"}

\* C6: last_size is 8 after construction and at least 8 always; a step
\* changes it only by running a vacuum (vacuum, shrink_to_fit, shrink_to,
\* or vacuum_if_needed and insert past the threshold), which sets it to
\* max(8, L), L the store length when that vacuum completes; right after
\* vacuum() last_size = max(len, 8).
C6_LastSize ==
    [][ /\ ret.op = "new" => last_size = MINIMUM_VACUUM_SIZE
        /\ last_size >= MINIMUM_VACUUM_SIZE
        /\ last_size' >= MINIMUM_VACUUM_SIZE
        /\ IF \/ ret'.op \in VacuumOps
              \/ ret'.op \in {"vacuum_if_needed", "insert"} /\ PastThreshold
           THEN last_size' = Max2(MINIMUM_VACUUM_SIZE, Cardinality(LiveKeys(inner, now)))
           ELSE last_size' = last_size
        /\ ret'.op \in VacuumOps =>
              last_size' = Max2(hm_len(inner'), MINIMUM_VACUUM_SIZE)
      ]_vars

\* C6 witness: a vacuum left more than 8 entries and set last_size to their
\* number
C6_Witness ==
    /\ ret.op = "vacuum"
    /\ last_size > MINIMUM_VACUUM_SIZE
    /\ last_size = hm_len(inner)

\* C7: vacuum_if_needed runs a full vacuum when the store length is
\* strictly greater than floor((last_size * 3) / 2), and otherwise leaves
\* the store and last_size unchanged.
C7_VacuumIfNeeded ==
    [][ ret'.op = "vacuum_if_needed" =>
            IF PastThreshold
            THEN /\ DOMAIN inner' = LiveKeys(inner, now)
                 /\ \A x \in DOMAIN inner' : inner'[x] = inner[x]
                 /\ last_size' = Max2(MINIMUM_VACUUM_SIZE, hm_len(inner'))
                 /\ ret'.vac
            ELSE /\ inner' = inner
                 /\ last_size' = last_size
                 /\ ~ret'.vac ]_vars

\* C7 witness: vacuum_if_needed ran a vacuum that deleted entries
C7_Witness ==
    /\ ret.op = "vacuum_if_needed"
    /\ ret.vac
    /\ hm_len(inner) <= MINIMUM_VACUUM_SIZE
    /\ DOMAIN inner # {}

WriteOps == {"insert", "remove", "remove_entry"}

\* C8 as stated: when the store length is past floor(last_size * 3 / 2),
\* the next insert, remove or remove_entry runs a vacuum, and the store
\* length when it returns is at most the number of entries alive then.
C8_AsStated ==
    [][ (PastThreshold /\ ret'.op \in WriteOps) =>
            /\ RanVacuum(ret'.key)
            /\ hm_len(inner') <= Cardinality(LiveKeys(inner', now')) ]_vars

\* C8 amended: of insert, remove and remove_entry only insert begins with
\* the vacuum-if-needed check.  When the store length is past
\* floor(last_size * 3 / 2), the next insert runs a vacuum, and the store
\* length when it returns is at most the number of entries alive then,
\* plus one when the inserted ttl is zero; remove and remove_entry run no
\* vacuum: they delete their key only and leave last_size as it was.
C8_InsertVacuums ==
    [][ /\ (PastThreshold /\ ret'.op = "insert") =>
              /\ RanVacuum(ret'.key)
              /\ ret'.vac
              /\ hm_len(inner') <= Cardinality(LiveKeys(inner', now'))
                                     + (IF InsTTL(ret') = 0 THEN 1 ELSE 0)
        /\ (~PastThreshold /\ ret'.op = "insert") =>
              /\ DOMAIN inner' = DOMAIN inner \cup {ret'.key}
              /\ last_size' = last_size
              /\ ~ret'.vac
        /\ ret'.op \in {"remove", "remove_entry"} =>
              /\ DOMAIN inner' = DOMAIN inner \ {ret'.key}
              /\ last_size' = last_size
              /\ ~ret'.vac ]_vars

\* C8 witness: an insert past the threshold ran a vacuum that deleted the
\* expired entry of a tracked key and kept the live entries
C8_Witness ==
    /\ ret.op = "insert"
    /\ ret.vac
    /\ \E k \in DOMAIN written : k \notin DOMAIN inner
    /\ hm_len(inner) > MINIMUM_VACUUM_SIZE
    /\ \A k \in DOMAIN inner : Live(inner, k, now)

\* the store holds an entry for k whose ttl is zero
ZeroTTL(m, k) == k \in DOMAIN m /\ m[k].ttl = 0

C9_Unseen ==
    \A k \in Keys :
        ZeroTTL(inner, k) =>
            /\ get_meta(Self, k, now) = None
            /\ get(Self, k, now) = None
            /\ get_key_value(Self, k, now) = None
            /\ get_mut(Self, k, now).ret = None
            /\ ~contains_key(Self, k, now)
            /\ len(Self) = Cardinality(DOMAIN inner \ {k}) + 1
            /\ ~is_empty(Self)

C9_Step ==
    /\ (ret'.op = "insert" /\ InsTTL(ret') = 0) => ZeroTTL(inner', ret'.key)
    /\ (ret'.op \in ReadOps /\ ZeroTTL(inner, ret'.key)) =>
            ret'.val = Absent(ret'.op)
    /\ (ret'.op \in WriteOps /\ ZeroTTL(inner, ret'.key)) =>
            ret'.val = Absent(IF ret'.op = "remove" THEN "contains_key" ELSE "get")
    /\ \A k \in DOMAIN inner :
            (ZeroTTL(inner, k) /\ ~ZeroTTL(inner', k)) =>
                \/ ret'.op \in WriteOps /\ ret'.key = k
                \/ ret'.op \in VacuumOps
                \/ ret'.op \in {"vacuum_if_needed", "insert"} /\ PastThreshold

\* C9: an entry inserted with ttl zero is expired from its creation: no
\* read reports it, at the instant of the insert or later; an insert on its
\* key returns no previous value, remove reports false and remove_entry
\* none; it is in the store, and counted in len(), until its key is
\* inserted again or removed, or a vacuum runs.
C9_ZeroTTL == []C9_Unseen /\ [][C9_Step]_vars

\* C9 witness: get was called on a key at the clock instant it was inserted
\* with ttl zero, and returned none while the entry is in the store
C9_Witness ==
    /\ ret.op = "get"
    /\ ZeroTTL(inner, ret.key)
    /\ inner[ret.key].inserted = now
    /\ ret.val = None

\* C10: get, get_meta, get_key_value, contains_key and get_mut leave the
\* stored keys, every entry's insertion time and ttl, the store length and
\* last_size unchanged, also when the entry looked up is expired; only
\* get_mut changes a value, and only that of a live entry of its key.
C10_ReadsKeep ==
    [][ ret'.op \in ReadOps =>
            /\ DOMAIN inner' = DOMAIN inner
            /\ hm_len(inner') = hm_len(inner)
            /\ last_size' = last_size
            /\ \A x \in DOMAIN inner :
                  /\ inner'[x].inserted = inner[x].inserted
                  /\ inner'[x].ttl = inner[x].ttl
                  /\ inner'[x].value # inner[x].value =>
                        /\ ret'.op = "get_mut"
                        /\ ret'.key = x
                        /\ Live(inner, x, now) ]_vars

\* C10 witness: get_mut was called on a key whose entry is expired,
\* returned none, and the entry is still in the store
C10_Witness ==
    /\ ret.op = "get_mut"
    /\ ret.val = None
    /\ ret.key \in DOMAIN inner
    /\ ~Live(inner, ret.key, now)

\* the entry of every tracked key in the store carries the clock time and
\* the ttl of the last insert of that key
C11_Stamps ==
    \A k \in Tracked \cap DOMAIN inner :
        /\ k \in DOMAIN written
        /\ inner[k].inserted = written[k].at
        /\ inner[k].ttl = written[k].ttl

\* an insert stamps the entry of its key with the clock and its ttl
\* argument; an entry appears, or its insertion time or ttl changes, only
\* by an insert on its key
C11_Step ==
    /\ ret'.op = "insert" =>
          /\ InsKey(ret') \in DOMAIN inner'
          /\ inner'[InsKey(ret')].inserted = now
          /\ inner'[InsKey(ret')].ttl = InsTTL(ret')
    /\ \A k \in DOMAIN inner' :
          (\/ k \notin DOMAIN inner
           \/ inner'[k].inserted # inner[k].inserted
           \/ inner'[k].ttl # inner[k].ttl)
          => ret'.op = "insert" /\ InsKey(ret') = k

\* C11: in every reachable state the insertion time and ttl of a stored
\* entry are the clock time and ttl argument of the most recent insert on
\* its key; no step other than an insert on that key changes them, and a
\* write through get_mut leaves them as they were.
C11_StampsFixed == []C11_Stamps /\ [][C11_Step]_vars

\* C11 witness: get_mut handed out the value of a live entry at a clock
\* instant later than the entry's insertion, the value was written, and
\* the entry still carries the time and ttl of its insert
C11_Witness ==
    /\ ret.op = "get_mut"
    /\ is_some(ret.val)
    /\ ret.key \in DOMAIN written
    /\ inner[ret.key].inserted = written[ret.key].at
    /\ inner[ret.key].inserted < now
    /\ inner[ret.key].value # unwrap(ret.val)

ShrinkOps == {"shrink_to_fit", "shrink_to"}

\* the store m2 and the last_size ls2 are what a vacuum at clock t leaves
\* of the store m
Vacuumed(m, m2, ls2, t) ==
    /\ DOMAIN m2 = LiveKeys(m, t)
    /\ \A k \in DOMAIN m2 : m2[k] = m[k]
    /\ \A k \in DOMAIN m2 : t - m2[k].inserted < m2[k].ttl
    /\ ls2 = Max2(hm_len(m2), MINIMUM_VACUUM_SIZE)

\* C12: after shrink_to_fit() or shrink_to(n), on the map and on the set,
\* the store holds no expired entry, holds every entry that was live at
\* the call unchanged, and last_size is max(len(), 8).
C12_ShrinkVacuums ==
    [][ ret'.op \in ShrinkOps =>
            /\ Vacuumed(inner, inner', last_size', now)
            /\ Vacuumed(set.inner, set'.inner, set'.last_size, now) ]_vars

\* C12 witness: shrink_to_fit or shrink_to was called on the set; a key
\* inserted earlier and never taken has expired and is no longer stored,
\* while a live entry is, and last_size is max(len(), 8)
C12_Witness ==
    /\ ret.op \in ShrinkOps
    /\ \E k \in DOMAIN written :
          /\ now - written[k].at >= written[k].ttl
          /\ k \notin DOMAIN set.inner
    /\ hm_len(set.inner) > 0
    /\ \A k \in DOMAIN set.inner : Live(set.inner, k, now)
    /\ set.last_size = Max2(hm_len(set.inner), MINIMUM_VACUUM_SIZE)

\* the set's store and last_size are those of the map that received the
\* same calls, and the result of the last call on the set is the map's
\* result seen through the unit value
C13_Same ==
    /\ set = Self
    /\ ret.op = "insert" => sret = is_some(ret.val)
    /\ ret.op = "contains_key" => sret = ret.val
    /\ ret.op = "remove_entry" =>
          /\ is_some(sret) <=> is_some(ret.val)
          /\ is_some(sret) => sret = Some(ret.key) /\ ret.val = Some(<<ret.key, Unit>>)
          /\ ret.key \notin DOMAIN set.inner

\* the set's insert is true, and its take returns the key, exactly when
\* the set held a live entry for the key at the call; contains is true
\* exactly then; insert vacuums the set first when its length is past the
\* threshold
C13_Step ==
    /\ ret'.op = "insert" =>
          /\ sret' <=> Live(set.inner, ret'.key, now)
          /\ DOMAIN set'.inner =
                (IF hm_len(set.inner) > (set.last_size * 3) \div 2
                 THEN LiveKeys(set.inner, now) ELSE DOMAIN set.inner) \cup {ret'.key}
    /\ ret'.op = "contains_key" => (sret' <=> Live(set.inner, ret'.key, now))
    /\ ret'.op = "remove_entry" =>
          /\ sret' = IF Live(set.inner, ret'.key, now) THEN Some(ret'.key) ELSE None
          /\ DOMAIN set'.inner = DOMAIN set.inner \ {ret'.key}
          /\ set'.last_size = set.last_size

\* C13: under any sequence of calls and clock ticks, the set and a map with
\* unit values given the same calls hold the same store and last_size;
\* set.insert is true iff map.insert returns a previous live entry,
\* set.contains equals map.contains_key, and set.take returns the key iff
\* map.remove_entry returns an entry, the entry being deleted either way.
C13_SetIsUnitMap == []C13_Same /\ [][C13_Step]_vars

\* C13 witness: insert was called on the set for a key it held live, at a
\* moment the store was past the threshold; the vacuum ran, dropping
\* expired entries, the call returned true, the map's insert returned the
\* previous entry, and both hold the same store
C13_Witness ==
    /\ ret.op = "insert"
    /\ ret.vac
    /\ sret = TRUE
    /\ is_some(ret.val)
    /\ set = Self
    /\ hm_len(set.inner) < MINIMUM_VACUUM_SIZE

\* what remaining, expired and not_expired report for every stored entry
C14_Value ==
    \A k \in DOMAIN inner :
        LET e == inner[k]
            el == now - e.inserted
            r == remaining(e, now)
        IN  /\ r = Max2(0, e.ttl - el)
            /\ r >= 0
            /\ el >= e.ttl => r = 0
            /\ expired(e, now) <=> r = 0
            /\ not_expired(e, now) <=> ~expired(e, now)

\* across a clock advance, for every stored entry
C14_Step ==
    ret'.op = "tick" =>
        \A k \in DOMAIN inner :
            /\ remaining(inner[k], now') <= remaining(inner[k], now)
            /\ not_expired(inner[k], now)
                  => remaining(inner[k], now') < remaining(inner[k], now)
            /\ expired(inner[k], now) => remaining(inner[k], now') = 0

\* C14: for every entry, remaining() is max(0, ttl - elapsed): never
\* negative, zero once elapsed >= ttl and from then on, not larger after a
\* clock advance and strictly smaller if the entry was live before it;
\* expired() holds exactly when remaining() is zero and not_expired() is
\* its negation.
C14_Remaining == []C14_Value /\ [][C14_Step]_vars

\* C14 witness: the clock has advanced; one stored entry has outlived its
\* ttl by more than nothing and its remaining() is clamped at zero,
\* another went from live to a remaining() of zero with this advance
C14_Witness ==
    /\ ret.op = "tick"
    /\ \E k \in DOMAIN inner :
          /\ now - inner[k].inserted > inner[k].ttl
          /\ remaining(inner[k], now) = 0
    /\ \E k \in DOMAIN inner :
          /\ inner[k].ttl > 0
          /\ now - inner[k].inserted = inner[k].ttl
          /\ remaining(inner[k], now - 1) > 0
          /\ remaining(inner[k], now) = 0

\* The abstract map: the tracked keys inserted and not removed since, each
\* with the time, ttl and value of its insert, an entry being in the map
\* only while less than its ttl has passed. Vacuums do not touch it.
AbsMap ==
    [k \in {x \in DOMAIN written : now - written[x].at < written[x].ttl}
        |-> [inserted |-> written[k].at, ttl |-> written[k].ttl,
             value |-> written[k].value]]

KeyOps == ReadOps \cup WriteOps

\* what the abstract map returns for the call op on key k
AbsResult(op, k) ==
    LET has == k \in DOMAIN AbsMap
    IN  CASE op = "contains_key" -> has
          [] op = "remove" -> has
          [] op = "get_meta" -> IF has THEN Some(AbsMap[k]) ELSE None
          [] op = "insert" -> IF has THEN Some(AbsMap[k]) ELSE None
          [] op = "get" -> IF has THEN Some(AbsMap[k].value) ELSE None
          [] op = "get_mut" -> IF has THEN Some(AbsMap[k].value) ELSE None
          [] op = "get_key_value" -> IF has THEN Some(<<k, AbsMap[k].value>>) ELSE None
          [] op = "remove_entry" -> IF has THEN Some(<<k, AbsMap[k].value>>) ELSE None

\* the abstract map holds exactly the stored, not expired entries of the
\* tracked keys
C15_Keys ==
    /\ DOMAIN AbsMap = LiveKeys(inner, now) \cap Tracked
    /\ \A k \in DOMAIN AbsMap : inner[k] = AbsMap[k]

\* every call on a tracked key returns what the abstract map returns
C15_Step ==
    ret'.op \in KeyOps /\ ret'.key \in Tracked
        => ret'.val = AbsResult(ret'.op, ret'.key)

\* C15: under every sequence of insert, remove, remove_entry, get,
\* get_meta, get_key_value, get_mut, contains_key, vacuum,
\* vacuum_if_needed, shrink_to_fit, shrink_to and clock ticks, each call
\* returns what an abstract map whose entries disappear the instant their
\* ttl elapses returns, and the keys of the abstract map are exactly the
\* stored keys whose entries are not expired, whenever and whether vacuums
\* run.
C15_Abstract == []C15_Keys /\ [][C15_Step]_vars

\* C15 witness: a key was inserted and not removed; its entry expired and
\* a vacuum deleted it; get_key_value on the key returned none, as the
\* abstract map does
C15_Witness ==
    /\ ret.op = "get_key_value"
    /\ ret.val = None
    /\ ret.key \in DOMAIN written
    /\ ret.key \notin DOMAIN AbsMap
    /\ ret.key \notin DOMAIN inner
    /\ hm_len(inner) > 0

\* the number of expired entries in the store
ExpiredCount == hm_len(inner) - Cardinality(LiveKeys(inner, now))

\* C16 as stated: at most half of the stored entries are expired, read for
\* a store that has grown past the floor of 8
C16_AsStated ==
    hm_len(inner) > MINIMUM_VACUUM_SIZE
        => ExpiredCount <= Cardinality(LiveKeys(inner, now))

\* C16: the expired entries in the store are bounded by last_size, which
\* is the number of entries alive at the last vacuum or 8 if that is more:
\* there are never more than floor(last_size * 3 / 2) + 1 of them. They are
\* not bounded by the entries alive now.
C16_GarbageBounded == ExpiredCount <= (last_size * 3) \div 2 + 1

\* C16 witness: the store holds floor(last_size * 3 / 2) + 1 entries and
\* every one of them is expired
C16_Witness ==
    /\ ExpiredCount = (last_size * 3) \div 2 + 1
    /\ LiveKeys(inner, now) = {}

\* C17: an insert that finds a new container's store past the threshold is
\* at least the 14th insert call; after an insert ran a vacuum that set
\* last_size to L, and with no explicit vacuum since, the next insert to
\* run one comes after at least floor(L / 2) further insert calls; and two
\* inserts that run a vacuum always have at least floor(8 / 2) insert
\* calls between them, the second being the 5th or later.
C17_Amortized ==
    [][ ret'.op = "insert" /\ ret'.vac =>
            /\ phase = "fresh" => inserts >= (MINIMUM_VACUUM_SIZE * 3) \div 2 + 1
            /\ phase = "swept" => inserts >= last_size \div 2
            /\ phase # "fresh" => inserts + 1 > MINIMUM_VACUUM_SIZE \div 2 ]_vars

\* C17 witness: an insert ran a vacuum and left last_size at 8; exactly
\* floor(8 / 2) insert calls later, with no explicit vacuum, the store is
\* past the threshold again, so the next insert vacuums
C17_Witness ==
    /\ phase = "swept"
    /\ ret.op = "insert"
    /\ inserts = last_size \div 2
    /\ hm_len(inner) > (last_size * 3) \div 2

\* the entry of k was expired and in the store before the step, and is
\* gone or replaced after it
ExpiredDropped(k) ==
    /\ k \in DOMAIN inner
    /\ ~Live(inner, k, now)
    /\ k \notin DOMAIN inner' \/ inner'[k] # inner[k]

\* C18 as stated: an expired entry leaves the store only in a step that
\* runs a vacuum or in an insert on its key
C18_AsStated ==
    [][ \A k \in DOMAIN inner :
            ExpiredDropped(k)
                => \/ ret'.vac
                   \/ ret'.op = "insert" /\ ret'.key = k ]_vars

\* C18: an expired entry leaves the store only in a step that runs a
\* vacuum (vacuum, shrink_to_fit, shrink_to, or a vacuum_if_needed or
\* insert past the threshold), in an insert on its key, or in a remove or
\* remove_entry on its key; no read deletes it.
C18_ExpiredRemoval ==
    [][ \A k \in DOMAIN inner :
            ExpiredDropped(k)
                => \/ ret'.vac
                   \/ ret'.op \in WriteOps /\ ret'.key = k ]_vars

\* C18 witness: remove was called on a key the caller had stored (it
\* removes no other key of FillKeys) whose entry was expired: it reported
\* false, the entry is gone, and no vacuum ran
C18_Witness ==
    /\ ret.op = "remove"
    /\ ret.key \in FillKeys
    /\ ret.val = FALSE
    /\ ~ret.vac
    /\ ret.key \notin DOMAIN inner
    /\ now > 0

\* C19: in every reachable state the store length is at most
\* floor((last_size * 3) / 2) + 1.
C19_LenBound == len(Self) <= (last_size * 3) \div 2 + 1

\* C19 witness: an insert found the store exactly at the threshold, ran no
\* vacuum and added a key, and the store is one entry past the threshold
C19_Witness ==
    /\ ret.op = "insert"
    /\ ~ret.vac
    /\ len(Self) = (last_size * 3) \div 2 + 1
    /\ last_size > MINIMUM_VACUUM_SIZE

\* the keys contains_key reports as present
Present == {k \in Keys : contains_key(Self, k, now)}

C20_Len ==
    /\ len(Self) >= Cardinality(Present)
    /\ is_empty(Self) <=> len(Self) = 0
    /\ is_empty(Self) => Present = {}
    /\ ret.op \in VacuumOps \/ (ret.op = "vacuum_if_needed" /\ ret.vac)
          => len(Self) = Cardinality(Present)

C20_Step == ret'.op = "tick" => len(SelfNext) = len(Self)

\* C20: len() and is_empty() report the stored entries: len() is at least
\* the number of keys contains_key reports, is_empty() is len() = 0, a
\* clock advance leaves len() as it was, and right after a vacuum, at the
\* same clock instant, len() is the number of keys contains_key reports.
C20_LenIsPhysical == []C20_Len /\ [][C20_Step]_vars

\* C20 witness: the clock has advanced, the store is not empty and holds
\* more than 8 entries, and contains_key reports no key
C20_Witness ==
    /\ ret.op = "tick"
    /\ ~is_empty(Self)
    /\ len(Self) > MINIMUM_VACUUM_SIZE
    /\ Present = {}

====
